---- MODULE Spec2Model ----
(***************************************************************************)
(* Combined Lights: one virtual dimmable light driving staged real lights. *)
(* Model of CombinedLight (light.py), HACombinedLightsCoordinator          *)
(* (helpers/ha_coordinator.py), the stage calculator                       *)
(* (helpers/base_coordinator.py), ManualChangeDetector and LightController.*)
(***************************************************************************)
EXTENDS Integers, Sequences, FiniteSets, TLC

\* ------------------------------------------------------------------------
\* Bounds of the model (not program constants)
\* ------------------------------------------------------------------------
\* number of command contexts (uuid4) the run may create after start-up
MaxCtx == 2
\* number of host state-change events in a run
MaxEvents == 2
\* task slots for concurrently live turn_on / turn_off / back-propagation tasks
MaxTasks == 2
\* number of host state-change events in a run without service requests
MaxBurst == 3
\* percentages given to the calculator are multiples of 1/PctSteps
PctSteps == 2
\* number of add_integration_context calls in a run of the context buffer
MaxIssued == 7

\* ------------------------------------------------------------------------
\* Configuration and program constants
\* ------------------------------------------------------------------------
\* absent value: dict key missing, attribute missing, Optional None
None == -1
\* context id of an event that no command of this integration originated
Foreign == -2
\* exclude_entity_id = None
NoLight == "none"

\* registration order of the controlled lights (stage_1 .. stage_4 lists)
LightOrder == <<"l1", "l2">>
Lights == {LightOrder[i] : i \in 1..Len(LightOrder)}
\* stage of each registered light
StageOf == [l \in Lights |-> IF l = "l1" THEN 1 ELSE 2]

\* const.py DEFAULT_BREAKPOINTS
Breakpoints == <<30, 60, 85>>
max_recent_contexts == 5
brightness_tolerance == 5
pending_brightness_timeout == 2
\* coordinator's initial target brightness
DefaultTarget == 255

\* brightness arguments of async_turn_on (None: ATTR_BRIGHTNESS absent)
TurnOnArgs == {None, 26, 128}
\* brightness attributes the host can report for a light that is on
HostBrightness == {None, 0, 70}
\* whether CONF_ENABLE_BACK_PROPAGATION is set in the entry
back_propagation_enabled == TRUE

Max(a, b) == IF a >= b THEN a ELSE b
Min(a, b) == IF a <= b THEN a ELSE b

\* ------------------------------------------------------------------------
\* BaseBrightnessCalculator (linear curve, the default of every stage)
\* ------------------------------------------------------------------------
\* activation point of a stage, in percent
ActivationPoint(stage) == IF stage = 1 THEN 0 ELSE Breakpoints[stage - 1]

\* inputs <<activation, target>> where the IEEE double evaluation of
\* int((1 + progress*99)/100*255) falls one below the exact quotient
FloatShort == {<<0, 155>>, <<30, 185>>, <<60, 175>>, <<60, 215>>,
               <<85, 225>>, <<85, 240>>, <<85, 245>>, <<85, 250>>}

\* calculate_zone_brightness(target/255*100, stage) > 0
ZoneIsOn(target, stage) == target * 100 > ActivationPoint(stage) * 255

\* int(calculate_zone_brightness(target/255*100, stage) / 100 * 255), 0 when off
ZoneBrightness255(target, stage) ==
    LET a == ActivationPoint(stage)
        n == 255 * (100 - a) + 99 * (100 * target - 255 * a)
        d == 100 * (100 - a)
    IN  IF ~ZoneIsOn(target, stage) THEN 0
        ELSE IF <<a, target>> \in FloatShort THEN (n \div d) - 1
        ELSE n \div d

\* _reverse_stage_brightness(stage, b/255*100) as the fraction num/den percent
ReverseDen == 255 * 99
ReverseNum(stage, b) ==
    LET a == ActivationPoint(stage)
        c == Max(0, Min(ReverseDen, 100 * b - 255))
    IN  a * ReverseDen + c * (100 - a)

\* max(1, min(255, int(overall_pct / 100 * 255))) for overall_pct = num/ReverseDen
TargetFromOverall(num) == Max(1, Min(255, (num * 255) \div (100 * ReverseDen)))

\* ------------------------------------------------------------------------
\* HACombinedLightsCoordinator: pure parts over the light records
\* ------------------------------------------------------------------------
RecOff == [is_on |-> FALSE, brightness |-> 0]

AnyOn(rec) == \E l \in Lights : rec[l].is_on

\* variant: every light is marked on
ApplyBrightnessAllOn(target) ==
    [l \in Lights |->
        [is_on |-> TRUE, brightness |-> ZoneBrightness255(target, StageOf[l])]]

\* apply_brightness_to_lights: records and change set for a target
ApplyBrightness(target) ==
    [l \in Lights |->
        LET b == ZoneBrightness255(target, StageOf[l])
        IN  IF ZoneIsOn(target, StageOf[l])
            THEN [is_on |-> TRUE, brightness |-> b]
            ELSE RecOff]

\* one pass of sync_light_state_from_ha over a host state
SyncLight(h) ==
    IF h.state = "on"
    THEN [is_on |-> TRUE,
          brightness |-> IF h.brightness = None \/ h.brightness = 0
                         THEN 255 ELSE h.brightness]
    ELSE RecOff

\* variant: the overall flag is not recomputed from the synced records
SyncAllIsOnStale(rec) == TRUE

\* sync_all_lights_from_ha: records and overall flag after the sync
SyncAllIsOn(rec) == AnyOn(rec)
SyncAll(host) ==
    LET r == [l \in Lights |-> SyncLight(host[l])]
    IN  [rec |-> r, is_on |-> SyncAllIsOn(r)]

\* _estimate_overall_from_current_lights + estimate_overall_from_zones:
\* the highest stage that has a light on; 0 when none
\* zone_brightness[stage] is written once per light in registration order, so
\* the last registered light of the stage decides the stage's brightness
LastLightOfStage(s) ==
    LET idx == {i \in 1..Len(LightOrder) : StageOf[LightOrder[i]] = s}
    IN  LightOrder[CHOOSE i \in idx : \A j \in idx : j <= i]
EstimateOverallNum(rec) ==
    LET lit == {s \in 1..4 : \E l \in Lights : StageOf[l] = s /\
                    LastLightOfStage(s) = l /\ rec[l].is_on /\ rec[l].brightness > 0}
        hs == IF lit = {} THEN 0 ELSE CHOOSE s \in lit : \A u \in lit : u <= s
    IN  IF hs = 0 THEN 0
        ELSE ReverseNum(hs, rec[LastLightOfStage(hs)].brightness)

\* apply_back_propagation(exclude): records after, and the change set
\* (None marks a light that is not in the returned dict)
BackPropRec(is_on, target, rec, exclude) ==
    [l \in Lights |->
        IF l = exclude THEN rec[l]
        ELSE IF ~is_on THEN RecOff
        ELSE ApplyBrightness(target)[l]]
BackPropChangesAll(is_on, target, rec, exclude) ==
    [l \in Lights |-> ApplyBrightness(target)[l].brightness]
BackPropChanges(is_on, target, rec, exclude) ==
    [l \in Lights |->
        IF l = exclude THEN None
        ELSE IF ~is_on
             THEN IF rec[l].is_on \/ rec[l].brightness > 0 THEN 0 ELSE None
        ELSE ApplyBrightness(target)[l].brightness]


\* ------------------------------------------------------------------------
\* ManualChangeDetector
\* ------------------------------------------------------------------------
Range(seq) == {seq[i] : i \in 1..Len(seq)}

\* variant: nothing is dropped when the buffer is over its capacity
add_integration_context_nocap(recent, ctx) ==
    IF ctx \in Range(recent) THEN recent ELSE Append(recent, ctx)

\* add_integration_context: append unless present, keep the last 5
add_integration_context(recent, ctx) ==
    IF ctx \in Range(recent) THEN recent
    ELSE LET r == Append(recent, ctx)
         IN  IF Len(r) > max_recent_contexts THEN Tail(r) ELSE r

\* variant: the context of the event is never looked up
context_is_ours_never(recent, ctx) == FALSE

\* event.context and event.context.id in self._recent_contexts
context_is_ours(recent, ctx) == ctx # Foreign /\ ctx \in Range(recent)

\* variant: the previous state of the light is not looked at
IsTransitionalAnyOld(ev) ==
    /\ ev.new_state = "on"
    /\ (ev.brightness = None \/ ev.brightness = 0)

\* on with brightness absent or 0, coming from off
IsTransitional(ev) ==
    /\ ev.new_state = "on"
    /\ (ev.brightness = None \/ ev.brightness = 0)
    /\ ev.old_state = "off"

\* variant: a pending entry never expires
PendingFreshAlways(pending, l) == pending[l] # None

\* the pending entry of a light is within the confirmation timeout; an entry
\* is kept as the whole seconds elapsed since time.time() was stored
PendingFresh(pending, l) ==
    pending[l] # None /\ pending[l] <= pending_brightness_timeout

Abs(x) == IF x < 0 THEN -x ELSE x

\* variant: the tolerance is compared strictly
ClassifyExpectedStrict(ev, e) ==
    IF ev.new_state = "off" /\ e = 0
    THEN [manual |-> FALSE, reason |-> "expected_off_state"]
    ELSE IF ev.brightness # None
    THEN IF Abs(ev.brightness - e) < brightness_tolerance
         THEN [manual |-> FALSE, reason |-> "expected_brightness_match"]
         ELSE [manual |-> TRUE, reason |-> "brightness_mismatch"]
    ELSE [manual |-> TRUE, reason |-> "brightness_mismatch"]

\* the expectation branch of is_manual_change (an expectation e exists)
ClassifyExpected(ev, e) ==
    IF ev.new_state = "off" /\ e = 0
    THEN [manual |-> FALSE, reason |-> "expected_off_state"]
    ELSE IF ev.brightness # None
    THEN IF Abs(ev.brightness - e) <= brightness_tolerance
         THEN [manual |-> FALSE, reason |-> "expected_brightness_match"]
         ELSE [manual |-> TRUE, reason |-> "brightness_mismatch"]
    ELSE [manual |-> TRUE, reason |-> "brightness_mismatch"]

\* variant: the updating flag is not consulted
ClassifyNoExpectationManual(updating) ==
    [manual |-> TRUE, reason |-> "external_context"]

\* the last two branches of is_manual_change (no expectation exists)
ClassifyNoExpectation(updating) ==
    IF updating
    THEN [manual |-> FALSE, reason |-> "integration_updating"]
    ELSE [manual |-> TRUE, reason |-> "external_context"]

\* is_manual_change(entity_id, event): verdict and the detector's dicts after
is_manual_change(recent, expected, updating, pending, l, ev) ==
    LET ours == context_is_ours(recent, ev.ctx)
        cleared == [pending EXCEPT ![l] = None]
        consumed == [expected EXCEPT ![l] = None]
    IN  IF IsTransitional(ev)
        THEN [manual |-> FALSE, reason |-> "transitional_on_state",
              expected |-> expected, pending |-> [pending EXCEPT ![l] = 0]]
        ELSE IF PendingFresh(pending, l)
        THEN [manual |-> TRUE, reason |-> "brightness_confirmation",
              expected |-> expected, pending |-> cleared]
        ELSE IF ours
        THEN [manual |-> FALSE, reason |-> "recent_context_match",
              expected |-> consumed, pending |-> cleared]
        ELSE IF expected[l] # None
        THEN [manual |-> ClassifyExpected(ev, expected[l]).manual,
              reason |-> ClassifyExpected(ev, expected[l]).reason,
              expected |-> consumed, pending |-> cleared]
        ELSE [manual |-> ClassifyNoExpectation(updating).manual,
              reason |-> ClassifyNoExpectation(updating).reason,
              expected |-> expected, pending |-> cleared]

\* variant: the expectations are not recorded ahead of the call
TrackGroupLate(expected, g) == expected

\* track_expected_state for every entity of a group, before its service call
TrackGroup(expected, g) ==
    [l \in Lights |-> IF l \in g.entities THEN g.brightness ELSE expected[l]]

\* ------------------------------------------------------------------------
\* LightController and the grouping of _apply_changes_to_ha
\* ------------------------------------------------------------------------
\* brightness values b for which int((b/255.0*100)/100.0*255) is b - 1
RoundTripShort == {15, 21, 30, 41, 42, 59, 60, 82, 83, 84, 85, 118, 119, 120,
                   121, 164, 165, 166, 167, 168, 169, 170, 171, 236, 237, 238,
                   239, 240, 241, 242, 243}
\* brightness_value sent by turn_on_lights for a change of brightness b
ServiceBrightness(b) == IF b \in RoundTripShort THEN b - 1 ELSE b

\* lights_on (dict keyed by brightness, insertion order) then lights_off
GroupsOf(changes) ==
    LET onLights == SelectSeq(LightOrder,
                        LAMBDA l : changes[l] # None /\ changes[l] > 0)
        IsFirst(i) == \A j \in 1..(i - 1) :
                        changes[onLights[j]] # changes[onLights[i]]
        keyIdx == SelectSeq([i \in 1..Len(onLights) |-> i], IsFirst)
        onGroups == [k \in 1..Len(keyIdx) |->
                        [brightness |-> changes[onLights[keyIdx[k]]],
                         entities |-> {l \in Lights :
                                changes[l] = changes[onLights[keyIdx[k]]]},
                         on |-> TRUE]]
        offEnts == {l \in Lights : changes[l] # None /\ changes[l] <= 0}
    IN  IF offEnts = {} THEN onGroups
        ELSE Append(onGroups, [brightness |-> 0, entities |-> offEnts,
                               on |-> FALSE])

\* variant: a failed call abandons the rest of the batch
RemainingAfterAbort(groups, outcome) ==
    IF outcome = "fail" THEN <<>> ELSE groups

\* groups still to be issued after a service call returned with an outcome:
\* the try/except around each call lets the loop continue
RemainingAfter(groups, outcome) == groups

\* "if result: any_success = True"; a failed call returns an empty dict
AnySuccess(prev, outcome) == prev \/ outcome = "ok"


\* ------------------------------------------------------------------------
\* State
\* ------------------------------------------------------------------------
VARIABLES
    ha,                     \* hass.states of the controlled lights
    coord_is_on,            \* coordinator._is_on
    target_brightness,      \* coordinator._target_brightness
    rec,                    \* coordinator._lights
    recent_contexts,        \* detector._recent_contexts
    expected_states,        \* detector._expected_states (None: no entry)
    updating_lights,        \* detector._updating_lights
    pending_brightness,     \* detector._pending_brightness as seconds elapsed
                            \* since the entry was stored (None: no entry)
    attr_is_on,             \* CombinedLight._attr_is_on
    pending_manual_changes, \* CombinedLight._pending_manual_changes
    timers,                 \* live (not cancelled, not finished) debounce tasks
    back_prop_task,         \* CombinedLight._back_prop_task while not done
    lock_holder,            \* task inside "async with self._lock"
    waiters,                \* asyncio.Lock._waiters, in arrival order
    task,                   \* the turn_on / turn_off / back-propagation tasks
    next_ctx,               \* next fresh context id (uuid4)
    events,                 \* host state-change events delivered so far
    verdict,                \* history: the event classified by the last step
    flushed,                \* history: the branch a flush took in the last step
    returned,               \* history: the operation that returned in the last step
    burst,                  \* history: lights queued since the last flush
    removed,                \* async_will_remove_from_hass has run
    result                  \* history: the last direct call of a coordinator
                            \* or calculator method and what it returned

vars == <<ha, coord_is_on, target_brightness, rec, recent_contexts,
          expected_states, updating_lights, pending_brightness, attr_is_on,
          pending_manual_changes, timers, back_prop_task, lock_holder,
          waiters, task, next_ctx, events, verdict, flushed, returned,
          burst, removed, result>>

Tasks == 1..MaxTasks
NoTask == 0
NoCall == [brightness |-> None, entities |-> {}, on |-> FALSE]
NoChanges == [l \in Lights |-> None]

IdleTask == [kind |-> "none", pc |-> "idle", arg |-> None, ctx |-> None,
             changes |-> NoChanges, groups |-> <<>>, call |-> NoCall,
             any_success |-> FALSE, cancel |-> FALSE,
             failed |-> {}, on_ok |-> FALSE]

HostOff == [state |-> "off", brightness |-> None]
HostFull == [state |-> "on", brightness |-> 255]
NoVerdict == [ours |-> FALSE, manual |-> FALSE, reason |-> "none"]
NoReturn == [kind |-> "none", failed |-> {}, on_ok |-> FALSE]
NoResult == [op |-> "none", arg |-> None, light |-> NoLight,
             changes |-> NoChanges, overall |-> 0,
             prior_is_on |-> FALSE, prior_target |-> 0,
             prior_rec |-> NoChanges,
             stage |-> 0, input |-> <<0, 1>>,
             estimate |-> [num |-> 0, den |-> 1],
             output |-> [num |-> 0, den |-> 1],
             zones |-> <<>>,
             issued |-> <<0>>,
             breakpoints |-> <<0, 0, 0>>, target |-> 0, lights |-> <<>>]

\* _sync_coordinator_from_ha at start-up: target estimated from the host
InitTarget(host) ==
    IF SyncAll(host).is_on /\ EstimateOverallNum(SyncAll(host).rec) > 0
    THEN TargetFromOverall(EstimateOverallNum(SyncAll(host).rec))
    ELSE DefaultTarget

coordinator == <<coord_is_on, target_brightness, rec>>
detector == <<recent_contexts, expected_states, updating_lights,
              pending_brightness>>
debounce == <<pending_manual_changes, timers, burst>>

Init ==
    /\ ha \in {[l \in Lights |-> h] : h \in {HostOff, HostFull}}
    /\ coord_is_on = SyncAll(ha).is_on
    /\ target_brightness = InitTarget(ha)
    /\ rec = SyncAll(ha).rec
    /\ recent_contexts = <<0>>
    /\ expected_states = [l \in Lights |-> None]
    /\ updating_lights = FALSE
    /\ pending_brightness = [l \in Lights |-> None]
    /\ attr_is_on = FALSE
    /\ pending_manual_changes = [l \in Lights |-> None]
    /\ timers = 0
    /\ back_prop_task = NoTask
    /\ lock_holder = NoTask
    /\ waiters = <<>>
    /\ task = [t \in Tasks |-> IdleTask]
    /\ next_ctx = 1
    /\ events = 0
    /\ verdict = NoVerdict
    /\ flushed = "none"
    /\ returned = NoReturn
    /\ burst = {}
    /\ removed = FALSE
    /\ result = NoResult

FreeSlots == {t \in Tasks : task[t].pc = "idle"}
FreeSlot == CHOOSE t \in FreeSlots : \A u \in FreeSlots : t <= u

\* ------------------------------------------------------------------------
\* Host events: light_state_changed and _handle_manual_change
\* ------------------------------------------------------------------------
\* brightness the service call in flight for a light would make it report
EchoBrightness(l) ==
    {ServiceBrightness(task[t].call.brightness) :
        t \in {u \in Tasks : task[u].pc = "calling" /\ task[u].call.on
                               /\ l \in task[u].call.entities}}

HostValues(l) ==
    {HostOff} \cup
    {[state |-> "on", brightness |-> b] : b \in HostBrightness \cup EchoBrightness(l)}

\* variant: the previous debounce task is left running
CancelTimerKeep(n) == n

\* task.cancel() on the previous debounce task: none stays live
CancelTimer(n) == 0

\* brightness queued by _handle_manual_change for a host state
QueuedBrightness(h) ==
    IF h.state = "on"
    THEN IF h.brightness = None \/ h.brightness = 0 THEN 255 ELSE h.brightness
    ELSE 0

light_state_changed(l, hv, ctx) ==
    LET ev == [new_state |-> hv.state, brightness |-> hv.brightness,
               old_state |-> ha[l].state, ctx |-> ctx]
        r == is_manual_change(recent_contexts, expected_states,
                              updating_lights, pending_brightness, l, ev)
    IN  /\ hv # ha[l]
        /\ events' = events + 1
        /\ ha' = [ha EXCEPT ![l] = hv]
        /\ expected_states' = r.expected
        /\ pending_brightness' = r.pending
        /\ verdict' = [ours |-> ctx \in Range(recent_contexts),
                       manual |-> r.manual, reason |-> r.reason]
        /\ flushed' = "none"
        /\ returned' = NoReturn
        /\ IF r.manual /\ ~updating_lights
           THEN /\ pending_manual_changes' =
                        [pending_manual_changes EXCEPT ![l] = QueuedBrightness(hv)]
                /\ timers' = CancelTimer(timers) + 1
                /\ burst' = burst \cup {l}
           ELSE UNCHANGED debounce
        /\ UNCHANGED <<coordinator, recent_contexts, updating_lights,
                       attr_is_on, back_prop_task, lock_holder, waiters, task,
                       next_ctx, removed, result>>

\* an event of the host reaches the listener
StateChanged(l, hv, ctx) ==
    /\ events < MaxEvents
    /\ light_state_changed(l, hv, ctx)

\* one second passes: every pending entry ages; ages beyond the timeout are
\* not told apart
Aged(p) == IF p = None THEN None ELSE Min(p + 1, pending_brightness_timeout + 1)
Tick ==
    /\ \E l \in Lights : Aged(pending_brightness[l]) # pending_brightness[l]
    /\ pending_brightness' = [l \in Lights |-> Aged(pending_brightness[l])]
    /\ UNCHANGED <<ha, coordinator, recent_contexts, expected_states,
                   updating_lights, attr_is_on, debounce, back_prop_task,
                   lock_holder, waiters, task, next_ctx, events, removed, result>>
    /\ verdict' = NoVerdict
    /\ flushed' = "none"
    /\ returned' = NoReturn

\* ------------------------------------------------------------------------
\* Debounce flush: _async_process_manual_changes after its sleep
\* ------------------------------------------------------------------------
\* _schedule_back_propagation: cancel the previous task, create a new one
ScheduleBackPropagation(changes) ==
    LET cancelled == IF back_prop_task # NoTask
                     THEN [task EXCEPT ![back_prop_task].cancel = TRUE]
                     ELSE task
    IN  /\ FreeSlots # {}
        /\ task' = [cancelled EXCEPT ![FreeSlot] =
                        [IdleTask EXCEPT !.kind = "bp", !.pc = "created",
                                         !.changes = changes]]
        /\ back_prop_task' = FreeSlot

Flush ==
    LET changes == pending_manual_changes
        changed_lights == {l \in Lights : changes[l] # None}
        all_off == \A l \in changed_lights : changes[l] = 0
        synced == SyncAll(ha)
        overall == EstimateOverallNum(synced.rec)
        target == IF overall > 0 THEN TargetFromOverall(overall)
                  ELSE target_brightness
    IN  /\ timers > 0
        /\ timers' = timers - 1
        /\ pending_manual_changes' = NoChanges
        /\ burst' = {}
        /\ IF changed_lights = {}
           THEN UNCHANGED <<coordinator, back_prop_task, task>>
           ELSE IF (all_off /\ changed_lights = Lights) \/ ~synced.is_on
           THEN \* Case 1 and Case 2: coordinator.turn_off()
                /\ coord_is_on' = FALSE
                /\ rec' = [l \in Lights |-> RecOff]
                /\ UNCHANGED <<target_brightness, back_prop_task, task>>
           ELSE \* Case 3: re-estimate, then back-propagate if enabled
                /\ coord_is_on' = TRUE
                /\ target_brightness' = target
                /\ IF back_propagation_enabled
                   THEN /\ rec' = BackPropRec(TRUE, target, synced.rec, NoLight)
                        /\ ScheduleBackPropagation(
                                BackPropChanges(TRUE, target, synced.rec, NoLight))
                   ELSE /\ rec' = synced.rec
                        /\ UNCHANGED <<back_prop_task, task>>
        /\ flushed' = IF changed_lights = {} THEN "empty"
                      ELSE IF (all_off /\ changed_lights = Lights) \/ ~synced.is_on
                      THEN "all_off" ELSE "settled"
        /\ verdict' = NoVerdict
        /\ returned' = NoReturn
        /\ UNCHANGED <<ha, detector, attr_is_on, lock_holder, waiters,
                       next_ctx, events, removed, result>>

\* ------------------------------------------------------------------------
\* Tasks: async_turn_on, async_turn_off, _async_apply_back_propagation
\* ------------------------------------------------------------------------
\* the waiter asyncio.Lock wakes on release: the first in arrival order
NextWaiter(w) == Head(w)

\* async_turn_on / async_turn_off is called and reaches "async with self._lock"
Submit(kind, arg) ==
    /\ FreeSlots # {}
    /\ next_ctx <= MaxCtx
    /\ task' = [task EXCEPT ![FreeSlot] =
                    [IdleTask EXCEPT !.kind = kind, !.pc = "wait", !.arg = arg,
                                     !.ctx = next_ctx]]
    /\ next_ctx' = next_ctx + 1
    /\ UNCHANGED <<events, removed, result>>
    /\ waiters' = Append(waiters, FreeSlot)
    /\ UNCHANGED <<ha, coordinator, detector, attr_is_on, debounce,
                   back_prop_task, lock_holder, events>>
    /\ verdict' = NoVerdict
    /\ flushed' = "none"
    /\ returned' = NoReturn

\* first step of the back-propagation task: new context, then the lock
BPStart(t) ==
    /\ task[t].pc = "created"
    /\ ~task[t].cancel
    /\ next_ctx <= MaxCtx
    /\ task' = [task EXCEPT ![t].pc = "wait", ![t].ctx = next_ctx]
    /\ next_ctx' = next_ctx + 1
    /\ UNCHANGED <<events, removed, result>>
    /\ recent_contexts' = add_integration_context(recent_contexts, next_ctx)
    /\ waiters' = Append(waiters, t)
    /\ UNCHANGED <<ha, coordinator, expected_states, updating_lights,
                   pending_brightness, attr_is_on, debounce, back_prop_task,
                   lock_holder, events>>
    /\ verdict' = NoVerdict
    /\ flushed' = "none"
    /\ returned' = NoReturn

\* variant: the flag is left as it is
UpdatingAfterFinallyKeep(u) == u

\* "finally: set_updating_flag(False)" of _apply_changes_to_ha
UpdatingAfterFinally(u) == FALSE

\* _apply_changes_to_ha from the point where the next group is taken:
\* track the group's expectations and issue its call, or leave the
\* "finally" and the lock when no group is left.  base is the task after the
\* step so far, exp0 the expectations so far, attr0 the entity flag so far.
IssueOrFinish(t, base, exp0, attr0) ==
    IF base.groups # <<>>
    THEN /\ expected_states' = TrackGroup(exp0, Head(base.groups))
         /\ task' = [task EXCEPT ![t] =
                        [base EXCEPT !.pc = "calling",
                                     !.call = Head(base.groups),
                                     !.groups = Tail(base.groups)]]
         /\ updating_lights' = TRUE
         /\ lock_holder' = t
         /\ attr_is_on' = attr0
         /\ back_prop_task' = back_prop_task
         /\ returned' = NoReturn
    ELSE /\ expected_states' = exp0
         /\ task' = [task EXCEPT ![t] = IdleTask]
         /\ updating_lights' = UpdatingAfterFinally(updating_lights)
         /\ lock_holder' = NoTask
         /\ attr_is_on' = IF base.kind = "on" /\ ~base.any_success
                          THEN FALSE ELSE attr0
         /\ back_prop_task' = IF back_prop_task = t THEN NoTask
                              ELSE back_prop_task
         /\ returned' = [kind |-> base.kind, failed |-> base.failed,
                         on_ok |-> base.on_ok]

\* the lock is granted: the body runs up to its first service call
Acquire(t) ==
    LET target == IF task[t].arg # None
                  THEN Max(1, Min(255, task[t].arg)) ELSE target_brightness
        newrec == CASE task[t].kind = "on" -> ApplyBrightness(target)
                    [] task[t].kind = "off" -> [l \in Lights |-> RecOff]
                    [] OTHER -> rec
        changes == IF task[t].kind = "bp" THEN task[t].changes
                   ELSE [l \in Lights |-> newrec[l].brightness]
        base == [task[t] EXCEPT !.changes = changes,
                                !.groups = GroupsOf(changes)]
    IN  /\ lock_holder = NoTask
        /\ waiters # <<>>
        /\ t = NextWaiter(waiters)
        /\ task[t].pc = "wait"
        /\ ~task[t].cancel
        /\ waiters' = SelectSeq(waiters, LAMBDA u : u # t)
        /\ rec' = newrec
        /\ target_brightness' = IF task[t].kind = "on" THEN target
                                ELSE target_brightness
        /\ coord_is_on' = CASE task[t].kind = "on" -> TRUE
                            [] task[t].kind = "off" -> FALSE
                            [] OTHER -> coord_is_on
        /\ recent_contexts' = IF task[t].kind = "bp" THEN recent_contexts
                              ELSE add_integration_context(recent_contexts,
                                                           task[t].ctx)
        /\ IssueOrFinish(t, base, expected_states,
                         CASE task[t].kind = "on" -> TRUE
                           [] task[t].kind = "off" -> FALSE
                           [] OTHER -> attr_is_on)
        /\ verdict' = NoVerdict
        /\ flushed' = "none"
        /\ UNCHANGED <<ha, pending_brightness, debounce, next_ctx, events, removed, result>>

\* the service call in flight returns: "ok" when the host accepted it,
\* "fail" when it raised inside LightController, which logs and returns {}
CallReturn(t, outcome) ==
    LET c == task[t].call
        base == [task[t] EXCEPT
                    !.any_success = AnySuccess(task[t].any_success, outcome),
                    !.groups = RemainingAfter(task[t].groups, outcome),
                    !.failed = IF outcome = "fail" THEN @ \cup c.entities ELSE @,
                    !.on_ok = @ \/ (outcome = "ok" /\ c.on)]
    IN  /\ task[t].pc = "calling"
        /\ ~task[t].cancel
        /\ IssueOrFinish(t, base, expected_states, attr_is_on)
        /\ verdict' = NoVerdict
        /\ flushed' = "none"
        /\ UNCHANGED <<ha, coordinator, recent_contexts, pending_brightness,
                       debounce, waiters, next_ctx, events, removed, result>>

\* CancelledError reaches a cancelled back-propagation task at its await
DeliverCancel(t) ==
    /\ task[t].cancel
    /\ task[t].pc # "idle"
    /\ task' = [task EXCEPT ![t] = IdleTask]
    /\ waiters' = SelectSeq(waiters, LAMBDA u : u # t)
    /\ IF task[t].pc = "calling"
       THEN /\ updating_lights' = UpdatingAfterFinally(updating_lights)
            /\ lock_holder' = NoTask
       ELSE UNCHANGED <<updating_lights, lock_holder>>
    /\ UNCHANGED <<ha, coordinator, recent_contexts, expected_states,
                   pending_brightness, attr_is_on, debounce, back_prop_task,
                   next_ctx, events, removed, result>>
    /\ verdict' = NoVerdict
    /\ flushed' = "none"
    /\ returned' = NoReturn

\* ------------------------------------------------------------------------
\* Teardown: async_will_remove_from_hass
\* ------------------------------------------------------------------------
\* variant: the task is left running
CancelTaskNever(tk, t) == tk

\* "if task and not task.done(): task.cancel()"
CancelTask(tk, t) ==
    IF t # NoTask THEN [tk EXCEPT ![t].cancel = TRUE] ELSE tk

\* the listener is removed, the back-propagation task and the debounce task
\* are cancelled
Remove ==
    /\ ~removed
    /\ removed' = TRUE
    /\ task' = CancelTask(task, back_prop_task)
    /\ timers' = CancelTimer(timers)
    /\ UNCHANGED <<ha, coordinator, detector, attr_is_on,
                   pending_manual_changes, burst, back_prop_task,
                   lock_holder, waiters, next_ctx, events, result>>
    /\ verdict' = NoVerdict
    /\ flushed' = "none"
    /\ returned' = NoReturn

\* an event of the host reaches the listener while it is registered, in a
\* run where no service request arrives
HostEvent(l, hv, ctx) ==
    /\ ~removed
    /\ events < MaxBurst
    /\ light_state_changed(l, hv, ctx)

\* ------------------------------------------------------------------------
\* Specification
\* ------------------------------------------------------------------------
Next ==
    \/ \E l \in Lights : \E hv \in HostValues(l) :
            \E ctx \in {Foreign} \cup (0..(next_ctx - 1)) : StateChanged(l, hv, ctx)
    \/ Flush
    \/ \E b \in TurnOnArgs : Submit("on", b)
    \/ Submit("off", None)
    \/ \E t \in Tasks : BPStart(t)
    \/ \E t \in Tasks : Acquire(t)
    \/ \E t \in Tasks : \E o \in {"ok", "fail"} : CallReturn(t, o)
    \/ \E t \in Tasks : DeliverCancel(t)
    \/ Tick

Spec == Init /\ [][Next]_vars

\* the virtual light receives host events only, until it is removed
NextManual ==
    \/ \E l \in Lights : \E hv \in HostValues(l) :
            \E ctx \in {Foreign} \cup (0..(next_ctx - 1)) : HostEvent(l, hv, ctx)
    \/ Flush
    \/ \E t \in Tasks : BPStart(t)
    \/ \E t \in Tasks : Acquire(t)
    \/ \E t \in Tasks : \E o \in {"ok", "fail"} : CallReturn(t, o)
    \/ \E t \in Tasks : DeliverCancel(t)
    \/ Tick
    \/ Remove

SpecManual == Init /\ [][NextManual]_vars

\* ------------------------------------------------------------------------
\* Coordinator methods called directly (simulation server, unit tests)
\* ------------------------------------------------------------------------
\* brightness arguments of a direct turn_on call (None: no argument)
CoordTurnOnArgs == {None, -5, 0, 1, 128, 300}
\* brightness arguments of a direct set_light_brightness call
SetLightArgs == {0, 70, 255}
\* host states read by a direct _sync_coordinator_from_ha
SyncHostValues == {HostOff, HostFull, [state |-> "on", brightness |-> None],
                   [state |-> "on", brightness |-> 0],
                   [state |-> "on", brightness |-> 70]}

\* variant: only the upper end is clamped
ClampBrightnessUpper(b) == Min(255, b)

\* max(1, min(255, brightness))
ClampBrightness(b) == Max(1, Min(255, b))

\* variant: the records are left as they are
TurnOffRecKeep(r) == r

\* turn_off: every record off with brightness 0
TurnOffRec(r) == [l \in Lights |-> RecOff]

\* variant: the target is put back to its initial value
TurnOffTargetReset(t) == DefaultTarget

\* turn_off does not assign _target_brightness
TurnOffTarget(t) == t

\* variant: a light that is off estimates to 0 percent
estimate_overall_from_single_light_zero(stage, b) ==
    IF b <= 0 THEN 0 ELSE ReverseNum(stage, b)

\* estimate_overall_from_single_light(stage, b/255*100) as the numerator of
\* a fraction over ReverseDen percent
estimate_overall_from_single_light(stage, b) ==
    IF b <= 0 THEN ActivationPoint(stage) * ReverseDen
    ELSE ReverseNum(stage, b)

\* what a direct coordinator call leaves alone
CoordinatorFrame ==
    /\ UNCHANGED <<detector, attr_is_on, debounce, back_prop_task,
                   lock_holder, waiters, task, next_ctx, events, removed>>
    /\ verdict' = NoVerdict
    /\ flushed' = "none"
    /\ returned' = NoReturn

Brightnesses(r) == [l \in Lights |-> r[l].brightness]

turn_on(b) ==
    LET target == IF b # None THEN ClampBrightness(b) ELSE target_brightness
    IN  /\ target_brightness' = target
        /\ coord_is_on' = TRUE
        /\ rec' = ApplyBrightness(target)
        /\ result' = [NoResult EXCEPT !.op = "turn_on", !.arg = b,
                        !.changes = Brightnesses(ApplyBrightness(target))]
        /\ UNCHANGED ha
        /\ CoordinatorFrame

turn_off ==
    /\ coord_is_on' = FALSE
    /\ rec' = TurnOffRec(rec)
    /\ target_brightness' = TurnOffTarget(target_brightness)
    /\ result' = [NoResult EXCEPT !.op = "turn_off",
                    !.changes = [l \in Lights |-> 0],
                    !.prior_is_on = coord_is_on,
                    !.prior_target = target_brightness,
                    !.prior_rec = Brightnesses(rec)]
    /\ UNCHANGED ha
    /\ CoordinatorFrame

set_light_brightness(l, b) ==
    LET newrec == [rec EXCEPT ![l] = IF b > 0
                                     THEN [is_on |-> TRUE, brightness |-> b]
                                     ELSE RecOff]
        any_on == AnyOn(newrec)
        overall == IF any_on
                   THEN estimate_overall_from_single_light(StageOf[l], b)
                   ELSE 0
    IN  /\ rec' = newrec
        /\ coord_is_on' = any_on
        /\ target_brightness' = IF any_on THEN TargetFromOverall(overall)
                                ELSE target_brightness
        /\ result' = [NoResult EXCEPT !.op = "set_light_brightness",
                        !.arg = b, !.light = l,
                        !.changes = [x \in Lights |-> IF x = l THEN b ELSE None],
                        !.overall = overall]
        /\ UNCHANGED ha
        /\ CoordinatorFrame

\* HACombinedLightsCoordinator.apply_back_propagation
apply_back_propagation(exclude) ==
    /\ rec' = BackPropRec(coord_is_on, target_brightness, rec, exclude)
    /\ result' = [NoResult EXCEPT !.op = "apply_back_propagation",
                    !.light = exclude,
                    !.changes = BackPropChanges(coord_is_on, target_brightness,
                                                rec, exclude)]
    /\ UNCHANGED <<ha, coord_is_on, target_brightness>>
    /\ CoordinatorFrame

\* BaseCombinedLightsCoordinator.apply_back_propagation: the stage targets
\* are applied whatever _is_on is
base_apply_back_propagation(exclude) ==
    /\ rec' = BackPropRec(TRUE, target_brightness, rec, exclude)
    /\ result' = [NoResult EXCEPT !.op = "base_apply_back_propagation",
                    !.light = exclude,
                    !.changes = BackPropChanges(TRUE, target_brightness,
                                                rec, exclude)]
    /\ UNCHANGED <<ha, coord_is_on, target_brightness>>
    /\ CoordinatorFrame

\* SimCombinedLightsCoordinator.async_set_light_brightness:
\* set_light_brightness, then apply_back_propagation(exclude) when
\* back-propagation is enabled and the coordinator is on
async_set_light_brightness(l, b) ==
    LET newrec == [rec EXCEPT ![l] = IF b > 0
                                     THEN [is_on |-> TRUE, brightness |-> b]
                                     ELSE RecOff]
        any_on == AnyOn(newrec)
        overall == IF any_on
                   THEN estimate_overall_from_single_light(StageOf[l], b)
                   ELSE 0
        target == IF any_on THEN TargetFromOverall(overall)
                  ELSE target_brightness
        back_prop == back_propagation_enabled /\ any_on
    IN  /\ rec' = IF back_prop THEN BackPropRec(TRUE, target, newrec, l)
                  ELSE newrec
        /\ coord_is_on' = any_on
        /\ target_brightness' = target
        /\ result' = [NoResult EXCEPT !.op = "async_set_light_brightness",
                        !.arg = b, !.light = l,
                        !.changes = IF back_prop
                                    THEN BackPropChanges(TRUE, target, newrec, l)
                                    ELSE NoChanges,
                        !.overall = overall]
        /\ UNCHANGED ha
        /\ CoordinatorFrame

reset ==
    /\ coord_is_on' = FALSE
    /\ target_brightness' = 255
    /\ rec' = [l \in Lights |-> RecOff]
    /\ result' = [NoResult EXCEPT !.op = "reset"]
    /\ UNCHANGED ha
    /\ CoordinatorFrame

\* the host states change and _sync_coordinator_from_ha reads them
sync_coordinator_from_ha(host) ==
    LET synced == SyncAll(host)
        overall == EstimateOverallNum(synced.rec)
    IN  /\ ha' = host
        /\ rec' = synced.rec
        /\ coord_is_on' = synced.is_on
        /\ target_brightness' = IF synced.is_on /\ overall > 0
                                THEN TargetFromOverall(overall)
                                ELSE target_brightness
        /\ result' = [NoResult EXCEPT !.op = "sync", !.overall = overall]
        /\ CoordinatorFrame

NextCoordinator ==
    \/ \E b \in CoordTurnOnArgs : turn_on(b)
    \/ turn_off
    \/ \E l \in Lights : \E b \in SetLightArgs : set_light_brightness(l, b)
    \/ \E l \in Lights : \E b \in SetLightArgs : async_set_light_brightness(l, b)
    \/ \E x \in Lights \cup {NoLight} : apply_back_propagation(x)
    \/ \E x \in Lights \cup {NoLight} : base_apply_back_propagation(x)
    \/ reset
    \/ \E host \in [Lights -> SyncHostValues] : sync_coordinator_from_ha(host)

SpecCoordinator == Init /\ [][NextCoordinator]_vars


\* ------------------------------------------------------------------------
\* Brightness calculator on percentages (BaseBrightnessCalculator)
\* ------------------------------------------------------------------------
\* a percentage is a fraction: <<n, d>> and [num |-> n, den |-> d] stand
\* for n/d percent

CalcStages == 1..4

\* overall percentages 0..100: the grid and target_brightness / 255 * 100
OverallInputs ==
    {<<i, PctSteps>> : i \in 0..(100 * PctSteps)}
        \cup {<<100 * t, 255>> : t \in 0..255}

\* stage percentages in (0, 100]: the grid and brightness / 255 * 100
StageInputs ==
    {<<i, PctSteps>> : i \in 1..(100 * PctSteps)}
        \cup {<<100 * b, 255>> : b \in 1..255}

\* variant: progress is mapped to 0..100 without the 1 percent floor
calculate_zone_brightness_nofloor(xn, xd, stage) ==
    LET activation_point == ActivationPoint(stage)
        range_span == 100 - activation_point
        den == xd * range_span
    IN  IF xn <= activation_point * xd THEN [num |-> 0, den |-> den]
        ELSE [num |-> 100 * Max(0, Min(den, xn - activation_point * xd)),
              den |-> den]

\* calculate_zone_brightness(xn / xd, stage) with the linear curve
calculate_zone_brightness(xn, xd, stage) ==
    LET activation_point == ActivationPoint(stage)
        range_span == 100 - activation_point
        den == xd * range_span
    IN  IF xn <= activation_point * xd THEN [num |-> 0, den |-> den]
        ELSE IF range_span <= 0
        THEN [num |-> IF xn >= 100 * xd THEN 100 ELSE 0, den |-> 1]
        \* progress = clamp((x - activation) / range_span, 0, 1) over den;
        \* result 1 + progress * 99
        ELSE [num |-> den + 99 * Max(0, Min(den, xn - activation_point * xd)),
              den |-> den]

\* variant: the activation point is not added back
reverse_stage_brightness_nooffset(stage, pn, pd) ==
    LET activation_point == ActivationPoint(stage)
        curved_progress == Max(0, Min(99 * pd, pn - pd))
    IN  [num |-> Max(0, Min(100 * 99 * pd,
                            curved_progress * (100 - activation_point))),
         den |-> 99 * pd]

\* _reverse_stage_brightness(stage, pn / pd) with the linear curve:
\* curved_progress = clamp((p - 1) / 99, 0, 1) over 99 * pd,
\* overall = clamp(activation + progress * range_span, 0, 100)
reverse_stage_brightness(stage, pn, pd) ==
    LET activation_point == ActivationPoint(stage)
        curved_progress == Max(0, Min(99 * pd, pn - pd))
    IN  [num |-> Max(0, Min(100 * 99 * pd,
                            activation_point * 99 * pd
                                + curved_progress * (100 - activation_point))),
         den |-> 99 * pd]

\* estimate_overall_from_single_light(stage, pn / pd)
estimate_overall_from_single_light_pct(stage, pn, pd) ==
    IF pn <= 0 THEN [num |-> ActivationPoint(stage) * 99 * pd, den |-> 99 * pd]
    ELSE reverse_stage_brightness(stage, pn, pd)

\* a stage without brightness in the zone dict (value None)
ZoneOff == <<None, 1>>
\* values of one stage in the zone_brightness argument
ZoneInputs == {ZoneOff, <<0, 1>>, <<1, PctSteps>>, <<50, 1>>, <<100, 1>>}

\* variant: the lowest active stage decides
estimate_overall_from_zones_lowest(zone_brightness) ==
    LET active == {s \in CalcStages : zone_brightness[s][1] > 0}
        lowest == CHOOSE s \in active : \A u \in active : s <= u
    IN  IF active = {} THEN [num |-> 0, den |-> 1]
        ELSE reverse_stage_brightness(lowest, zone_brightness[lowest][1],
                                      zone_brightness[lowest][2])

\* estimate_overall_from_zones: the loop over stages 1..4 keeps the last
\* stage whose brightness is set and above 0
estimate_overall_from_zones(zone_brightness) ==
    LET active == {s \in CalcStages : zone_brightness[s][1] > 0}
        highest_active_stage == CHOOSE s \in active : \A u \in active : u <= s
    IN  IF active = {} THEN [num |-> 0, den |-> 1]
        ELSE reverse_stage_brightness(highest_active_stage,
                                      zone_brightness[highest_active_stage][1],
                                      zone_brightness[highest_active_stage][2])

\* one call of estimate_overall_from_zones
CalcZones(zone_brightness) ==
    /\ result.op = "none"
    /\ result' = [NoResult EXCEPT !.op = "estimate_overall_from_zones",
                    !.zones = zone_brightness,
                    !.estimate = estimate_overall_from_zones(zone_brightness)]
    /\ UNCHANGED <<ha, coord_is_on, target_brightness, rec>>
    /\ CoordinatorFrame

\* one call of calculate_zone_brightness; the calculator keeps no state
\* between calls, so a behaviour holds a single call
CalcForward(stage, x) ==
    /\ result.op = "none"
    /\ result' = [NoResult EXCEPT !.op = "calculate_zone_brightness",
                    !.stage = stage, !.input = x,
                    !.output = calculate_zone_brightness(x[1], x[2], stage)]
    /\ UNCHANGED <<ha, coord_is_on, target_brightness, rec>>
    /\ CoordinatorFrame

\* estimate_overall_from_single_light followed by calculate_zone_brightness
CalcRoundTrip(stage, p) ==
    LET overall == estimate_overall_from_single_light_pct(stage, p[1], p[2])
    IN  /\ result.op = "none"
        /\ result' = [NoResult EXCEPT !.op = "roundtrip",
                        !.stage = stage, !.input = p,
                        !.estimate = overall,
                        !.output = calculate_zone_brightness(
                                        overall.num, overall.den, stage)]
        /\ UNCHANGED <<ha, coord_is_on, target_brightness, rec>>
        /\ CoordinatorFrame

NextCalc ==
    \/ \E stage \in CalcStages : \E x \in OverallInputs : CalcForward(stage, x)
    \/ \E stage \in CalcStages : \E p \in StageInputs : CalcRoundTrip(stage, p)
    \/ \E zone \in [CalcStages -> ZoneInputs] : CalcZones(zone)

SpecCalc == Init /\ [][NextCalc]_vars

\* ------------------------------------------------------------------------
\* The buffer of recent command contexts (ManualChangeDetector)
\* ------------------------------------------------------------------------
\* the context identities a command can carry: one that was issued before
\* (the caller's context, "getattr(self, 'context', None)") or a fresh uuid4,
\* named by the next unused number
IssuableContexts(issued) ==
    0..(1 + CHOOSE m \in Range(issued) : \A x \in Range(issued) : x <= m)

\* a command is issued under context ctx: add_integration_context(ctx);
\* result.issued is the history of the contexts passed in, starting with the
\* context created when the entity was added
IssueCommand(ctx) ==
    /\ Len(result.issued) <= MaxIssued
    /\ ctx \in IssuableContexts(result.issued)
    /\ recent_contexts' = add_integration_context(recent_contexts, ctx)
    /\ result' = [NoResult EXCEPT !.op = "add_integration_context",
                    !.arg = ctx, !.issued = Append(result.issued, ctx)]
    /\ UNCHANGED <<ha, coordinator, expected_states, updating_lights,
                   pending_brightness, attr_is_on, debounce, back_prop_task,
                   lock_holder, waiters, task, next_ctx, events, removed>>
    /\ verdict' = NoVerdict
    /\ flushed' = "none"
    /\ returned' = NoReturn

NextContexts == \E ctx \in 0..(MaxIssued + 1) : IssueCommand(ctx)

SpecContexts == Init /\ [][NextContexts]_vars

\* ------------------------------------------------------------------------
\* Coordinator with lights in all four stages and configured breakpoints
\* ------------------------------------------------------------------------
\* the breakpoint triples validate_breakpoints accepts
ValidBreakpoints ==
    {bp \in (1..99) \X (1..99) \X (1..99) : bp[1] < bp[2] /\ bp[2] < bp[3]}

\* the default triple, every triple of neighbouring values and the widest one
BreakpointSamples ==
    {Breakpoints} \cup {<<a, a + 1, a + 2>> : a \in 1..97} \cup {<<1, 50, 99>>}

\* two lights registered in each stage: <<stage, index>>
StageLights == CalcStages \X (1..2)

\* turn_on arguments: no brightness, and 0..256 around the clamp
TurnOnInputs == {None} \cup 0..256

\* variant: the breakpoints are read in reverse order
activation_point_reversed(breakpoints, stage) ==
    IF stage = 1 THEN 0 ELSE breakpoints[5 - stage]

\* the activation point calculate_zone_brightness takes from get_breakpoints()
activation_point(breakpoints, stage) ==
    IF stage = 1 THEN 0 ELSE breakpoints[stage - 1]

\* calculate_zone_brightness(target / 255.0 * 100, stage) > 0: the result is
\* 0.0 at or below the activation point and at least 1.0 above it, whatever
\* the curve
StageOn(breakpoints, target, stage) ==
    target * 100 > activation_point(breakpoints, stage) * 255

\* variant: the target is rounded up
target_from_pct_ceil(overall_pct) ==
    Max(1, Min(255, (overall_pct * 255 + 99) \div 100))

\* max(1, min(255, int(overall_pct / 100 * 255))) for a whole percentage
target_from_pct(overall_pct) ==
    Max(1, Min(255, (overall_pct * 255) \div 100))

\* the loop of apply_brightness_to_lights and apply_back_propagation over the
\* lights' is_on; a light is given brightness 0 exactly when it is set off
\* (an on light gets int(pct / 100 * 255) with pct >= 1.0, at least 2)
ApplyToStageLights(breakpoints, target, lights, exclude) ==
    [l \in StageLights |->
        IF l \in exclude THEN lights[l]
        ELSE StageOn(breakpoints, target, l[1])]

\* turn_on(brightness) on a coordinator whose target was the initial 255,
\* for some configured breakpoints; a behaviour holds a single call, as for
\* the calculator
StagesTurnOn ==
    /\ result.op = "none"
    /\ \E breakpoints \in BreakpointSamples : \E brightness \in TurnOnInputs :
        LET target == IF brightness # None THEN Max(1, Min(255, brightness))
                      ELSE DefaultTarget
            lights == ApplyToStageLights(breakpoints, target,
                                         [l \in StageLights |-> FALSE], {})
        IN  result' = [NoResult EXCEPT !.op = "turn_on_stages",
                         !.arg = brightness, !.breakpoints = breakpoints,
                         !.target = target, !.lights = lights]
    /\ UNCHANGED <<ha, coord_is_on, target_brightness, rec>>
    /\ CoordinatorFrame

\* with every light on after turn_on(255): set_light_brightness(L, 0) for
\* the first light L of a stage, then apply_back_propagation(exclude = L),
\* which the callers run when the coordinator is still on
StagesLightOff ==
    /\ result.op = "none"
    /\ \E breakpoints \in ValidBreakpoints : \E stage \in CalcStages :
        LET L == <<stage, 1>>
            full == ApplyToStageLights(breakpoints, 255,
                                       [l \in StageLights |-> FALSE], {})
            set == [full EXCEPT ![L] = FALSE]
            any_on == \E l \in StageLights : set[l]
            \* estimate_overall_from_single_light(stage, 0.0)
            overall_pct == activation_point(breakpoints, stage)
            target == IF any_on THEN target_from_pct(overall_pct) ELSE 255
            lights == IF any_on
                      THEN ApplyToStageLights(breakpoints, target, set, {L})
                      ELSE set
        IN  result' = [NoResult EXCEPT !.op = "light_off_stages",
                         !.arg = 0, !.stage = stage,
                         !.breakpoints = breakpoints,
                         !.target = target, !.lights = lights]
    /\ UNCHANGED <<ha, coord_is_on, target_brightness, rec>>
    /\ CoordinatorFrame

NextStages ==
    \/ StagesTurnOn
    \/ StagesLightOff

SpecStages == Init /\ [][NextStages]_vars

\* ------------------------------------------------------------------------
\* Properties
\* ------------------------------------------------------------------------
\* the light whose host state changed in a step received the event
EventOn(l) == ha'[l] # ha[l]
AllHostOff == \A l \in Lights : ha[l].state = "off"

C2_FlushUnderLock ==
    flushed # "none" =>
        ~(lock_holder # NoTask /\ task[lock_holder].kind = "on")

\* C3: when the service call for a group is issued, the expectation of every
\* light of the group is already recorded with the group's brightness.
C3_ExpectationBeforeActuation ==
    [][\A t \in Tasks :
            (task'[t].pc = "calling" /\ task'[t].call # task[t].call)
                => \A l \in task'[t].call.entities :
                        expected_states'[l] = task'[t].call.brightness]_vars

\* a back-propagation call is in flight with its expectations recorded
C3_Witness ==
    \E t \in Tasks :
        /\ task[t].pc = "calling"
        /\ task[t].kind = "bp"
        /\ \A l \in task[t].call.entities :
                expected_states[l] = task[t].call.brightness

\* C4: a burst of manual events keeps exactly one debounce task alive, the one
\* armed by the last event; its flush takes every light queued in the burst
\* and leaves no debounce task behind.
C4_DebounceCollapse ==
    /\ [](/\ timers <= 1
          /\ (timers = 1 <=> burst # {})
          /\ burst = {l \in Lights : pending_manual_changes[l] # None})
    /\ [][flushed' # "none" =>
            /\ timers' = 0
            /\ flushed' # "empty"
            /\ pending_manual_changes' = NoChanges]_vars

\* two lights were queued in one burst and a single debounce task is armed
C4_Witness == timers = 1 /\ Cardinality(burst) = 2

\* C5: a flush that finds every controlled light off leaves the coordinator
\* OFF and schedules no back-propagation, although it is enabled.
C5_AllOffBatch ==
    [][(flushed' # "none" /\ AllHostOff) =>
            /\ ~coord_is_on'
            /\ task' = task
            /\ back_prop_task' = back_prop_task]_vars

\* a flush took the all-off branch after the coordinator had been ON
C5_Witness ==
    /\ flushed = "all_off"
    /\ AllHostOff
    /\ ~coord_is_on
    /\ back_propagation_enabled

\* C6: when an operation returns, no light whose command failed in it still
\* has an expectation.
C6_FailureCleansExpectation ==
    returned.kind # "none" =>
        \A l \in returned.failed : expected_states[l] = None

C8_PartialFailureIsolation ==
    [][\A t \in Tasks :
            (/\ task[t].pc = "calling"
             /\ task[t].groups # <<>>
             /\ ~task[t].cancel /\ ~task'[t].cancel
             /\ task'[t] # task[t])
                => /\ task'[t].pc = "calling"
                   /\ task'[t].call = Head(task[t].groups)
                   /\ task'[t].groups = Tail(task[t].groups)]_vars

\* the call of a later group is in flight after an earlier group failed
C8_Witness ==
    \E t \in Tasks : task[t].pc = "calling" /\ task[t].failed # {}

\* C9: operations hold the lock one at a time and in arrival order, and while
\* one operation holds the lock nothing else updates the coordinator record.
C9_LockSerialisation ==
    /\ [](\A t \in Tasks : task[t].pc = "calling" => lock_holder = t)
    /\ [][(lock_holder' # lock_holder /\ lock_holder' # NoTask) =>
            /\ lock_holder = NoTask
            /\ \A u \in Tasks \ {lock_holder'} :
                    task[u].pc = "wait" => task[u].ctx > task[lock_holder'].ctx]_vars
    /\ [][(lock_holder # NoTask /\ lock_holder' = lock_holder) =>
            UNCHANGED coordinator]_vars

\* C10 (as stated): an event from a foreign context on a light with an
\* expectation e is not manual when its brightness is within 5 of e or it
\* reports off while e is 0, manual when the brightness differs from e by
\* more than 5, and the expectation is removed in both outcomes.
ExpectationRule(l) ==
    LET e == expected_states[l]
        b == ha'[l].brightness
        matches == \/ (b # None /\ Abs(b - e) <= brightness_tolerance)
                   \/ (ha'[l].state = "off" /\ e = 0)
        differs == b # None /\ Abs(b - e) > brightness_tolerance /\ ~matches
    IN  /\ matches => ~verdict'.manual
        /\ differs => verdict'.manual
        /\ (matches \/ differs) => expected_states'[l] = None

C10_ExpectationClassification ==
    [][\A l \in Lights :
            (EventOn(l) /\ ~verdict'.ours /\ expected_states[l] # None)
                => ExpectationRule(l)]_vars

\* C10 (amended): the rule holds for an event that is not a transitional
\* off -> on report without brightness and whose light has no
\* pending-confirmation entry still within its timeout.
C10_ExpectationClassificationSettled ==
    [][\A l \in Lights :
            (/\ EventOn(l) /\ ~verdict'.ours /\ expected_states[l] # None
             /\ ~(ha[l].state = "off" /\ ha'[l].state = "on"
                    /\ ha'[l].brightness \in {None, 0})
             /\ ~PendingFresh(pending_brightness, l))
                => ExpectationRule(l)]_vars

\* a foreign event matched the expectation of its light within the tolerance
C10_Witness ==
    ~verdict.ours /\ verdict.reason = "expected_brightness_match"

\* C11: a foreign event that reports a light off while an expectation of on
\* (brightness above 0) exists for it is classified manual with reason
\* unexpected_off.
C11_UnexpectedOff ==
    [][\A l \in Lights :
            (/\ EventOn(l) /\ ~verdict'.ours
             /\ expected_states[l] # None /\ expected_states[l] > 0
             /\ ha'[l].state = "off")
                => (verdict'.manual /\ verdict'.reason = "unexpected_off")]_vars

\* C12: an off -> on event with brightness 0 or absent is not manual and
\* stores a fresh pending-confirmation entry for the light; an event whose
\* previous state was on is never transitional and leaves no pending entry.
C12_TransitionalSuppression ==
    [][\A l \in Lights :
        /\ (/\ EventOn(l) /\ ha[l].state = "off" /\ ha'[l].state = "on"
            /\ ha'[l].brightness \in {None, 0})
                => /\ ~verdict'.manual
                   /\ verdict'.reason = "transitional_on_state"
                   /\ pending_brightness'[l] = 0
        /\ (EventOn(l) /\ ha[l].state = "on")
                => /\ verdict'.reason # "transitional_on_state"
                   /\ pending_brightness'[l] = None]_vars

\* a light came on without brightness and is pending confirmation
C12_Witness ==
    /\ verdict.reason = "transitional_on_state"
    /\ \E l \in Lights : pending_brightness[l] = 0 /\ ha[l].state = "on"

\* C13: the next event with a real brightness for a light that has a
\* pending-confirmation entry is manual when the entry is at most 2 s old;
\* when it is older the event is classified by the context, expectation and
\* updating rules; the entry is removed either way.
C13_PendingConfirmation ==
    [][\A l \in Lights :
        LET age == pending_brightness[l]
            b == ha'[l].brightness
            e == expected_states[l]
        IN  (EventOn(l) /\ age # None /\ b # None /\ b > 0)
                => /\ pending_brightness'[l] = None
                   /\ age <= pending_brightness_timeout
                        => (verdict'.manual
                            /\ verdict'.reason = "brightness_confirmation")
                   /\ age > pending_brightness_timeout
                        => /\ verdict'.reason # "brightness_confirmation"
                           /\ verdict'.manual =
                                IF verdict'.ours THEN FALSE
                                ELSE IF e # None
                                THEN Abs(b - e) > brightness_tolerance
                                ELSE ~updating_lights]_vars

\* the brightness of a pending light arrived within the timeout
C13_Witness ==
    /\ verdict.reason = "brightness_confirmation"
    /\ \E l \in Lights : ha[l].state = "on" /\ ha[l].brightness = 70
                            /\ pending_brightness[l] = None

\* C14 (as stated): a foreign event on a light with neither a pending entry
\* nor an expectation is not manual exactly when the updating flag is set.
C14_NoExpectationRule ==
    [][\A l \in Lights :
            (/\ EventOn(l) /\ ~verdict'.ours
             /\ pending_brightness[l] = None /\ expected_states[l] = None)
                => (verdict'.manual <=> ~updating_lights)]_vars

\* C14 (amended): the rule holds for every such event that is not a
\* transitional off -> on report with brightness 0 or absent.
C14_NoExpectationRuleSettled ==
    [][\A l \in Lights :
            (/\ EventOn(l) /\ ~verdict'.ours
             /\ pending_brightness[l] = None /\ expected_states[l] = None
             /\ ~(ha[l].state = "off" /\ ha'[l].state = "on"
                    /\ ha'[l].brightness \in {None, 0}))
                => (verdict'.manual <=> ~updating_lights)]_vars

\* a foreign event without expectation was suppressed during a batch update
C14_Witness ==
    ~verdict.ours /\ verdict.reason = "integration_updating" /\ updating_lights

\* C15: an expectation for a light exists only while a command for it is in
\* flight: it is gone once an event for the light has been classified against
\* it, and once the command for the light has failed or has been cancelled.
C15_ExpectationLifecycle ==
    [][\A l \in Lights :
        /\ (/\ EventOn(l) /\ expected_states[l] # None
            /\ ~(ha[l].state = "off" /\ ha'[l].state = "on"
                    /\ ha'[l].brightness \in {None, 0})
            /\ ~(pending_brightness[l] # None
                    /\ pending_brightness[l] <= pending_brightness_timeout))
                => expected_states'[l] = None
        /\ \A t \in Tasks :
            (/\ task[t].pc = "calling" /\ l \in task[t].call.entities
             /\ \/ l \in task'[t].failed \ task[t].failed
                \/ (task'[t].pc = "idle" /\ l \in returned'.failed)
                \/ (task[t].cancel /\ task'[t].pc = "idle"))
                => expected_states'[l] = None]_vars

\* C16: every event classified manual is queued in the pending batch under
\* its light with the brightness it reports, and leaves one debounce task
\* armed, also while an actuation is in progress.
C16_ManualEventsQueued ==
    [][\A l \in Lights :
            (EventOn(l) /\ verdict'.manual)
                => /\ pending_manual_changes'[l] = QueuedBrightness(ha'[l])
                   /\ timers' = 1]_vars

\* C17: when a flush settles a window that holds exactly one manual change,
\* the back-propagation it computes leaves the record of the touched light at
\* its observed value and holds no command for that light.
C17_SingleChangeExcluded ==
    [][(flushed' = "settled" /\ Cardinality(burst) = 1
            /\ back_propagation_enabled)
            => \A l \in burst :
                /\ rec'[l] = SyncLight(ha[l])
                /\ back_prop_task' # NoTask
                    => task'[back_prop_task'].changes[l] = None]_vars

\* C19: a flush changes the light records only by syncing them from the host
\* and issues no service call itself; the back-propagation task it creates
\* leaves the coordinator, the expectations and the updating flag alone
\* until it holds the lock.
C19_BackPropagationDispatched ==
    /\ [][flushed' = "settled" => rec' = SyncAll(ha).rec]_vars
    /\ [][flushed' # "none" =>
            \A t \in Tasks : task'[t].pc = "calling" =>
                (task[t].pc = "calling" /\ task'[t].call = task[t].call)]_vars
    /\ [][\A t \in Tasks :
            (/\ task[t].kind = "bp" /\ task'[t] # task[t]
             /\ lock_holder # t /\ lock_holder' # t)
                => UNCHANGED <<coordinator, expected_states,
                               updating_lights>>]_vars

\* C18: a flush that finds a controlled light on schedules a back-propagation
\* task exactly when back-propagation is enabled, and with back-propagation
\* disabled a flush creates no task and issues no command.
C18_BackPropagationIffEnabled ==
    [][(flushed' # "none" /\ \E l \in Lights : ha[l].state = "on") =>
            /\ back_propagation_enabled <=>
                    /\ back_prop_task' # NoTask
                    /\ task[back_prop_task'].pc = "idle"
                    /\ task'[back_prop_task'].pc = "created"
            /\ ~back_propagation_enabled => task' = task]_vars

\* C20: once the virtual light is removed no debounce task is live and every
\* unfinished back-propagation task is cancelled; from then on no flush runs,
\* no service call is issued and the coordinator is not touched; when the
\* cancelled task has unwound, the lock is free and the updating flag clear.
C20_TeardownCancellation ==
    /\ [](removed =>
            /\ timers = 0
            /\ \A t \in Tasks :
                    (task[t].kind = "bp" /\ task[t].pc # "idle")
                        => task[t].cancel
            /\ (\A t \in Tasks : task[t].pc = "idle")
                        => (lock_holder = NoTask /\ ~updating_lights))
    /\ [][removed' =>
            /\ flushed' = "none"
            /\ \A t \in Tasks : task'[t].pc = "calling" =>
                    (task[t].pc = "calling" /\ task'[t].call = task[t].call)
            /\ UNCHANGED <<coordinator, expected_states,
                           pending_manual_changes>>]_vars

\* the light was removed while a debounce task was armed and the service
\* call of a back-propagation task was in flight
C20_Witness ==
    /\ removed
    /\ timers = 0
    /\ pending_manual_changes # NoChanges
    /\ \E t \in Tasks : task[t].kind = "bp" /\ task[t].pc = "calling"
                            /\ task[t].cancel

\* C21: a back-propagation task that is still in flight when a new manual
\* event arrives is cancelled at the latest when the debounce window of that
\* event is flushed.
C21_Supersession ==
    [][(/\ flushed' # "none"
        /\ back_prop_task # NoTask
        /\ task[back_prop_task].kind = "bp"
        /\ task[back_prop_task].pc # "idle")
            => task'[back_prop_task].cancel]_vars

BackPropOps == {"apply_back_propagation", "base_apply_back_propagation"}

\* C22: apply_back_propagation called while the coordinator is OFF returns
\* only changes of brightness 0 and leaves no light other than the excluded
\* one on.
C22_NoRevival ==
    [][(result'.op \in BackPropOps /\ ~coord_is_on) =>
            \A l \in Lights :
                /\ result'.changes[l] \in {None, 0}
                /\ l # result'.light => ~rec'[l].is_on]_vars

\* C23: apply_back_propagation(exclude = L) called while the coordinator is
\* ON leaves the record of L as it was and returns no change for L; every
\* other light is returned with the brightness of its stage at the current
\* target and its record holds that brightness.
C23_BackPropagationExcludes ==
    [][(result'.op \in BackPropOps /\ coord_is_on /\ result'.light \in Lights)
            => \A l \in Lights :
                IF l = result'.light
                THEN rec'[l] = rec[l] /\ result'.changes[l] = None
                ELSE /\ result'.changes[l] =
                            ZoneBrightness255(target_brightness, StageOf[l])
                     /\ rec'[l].brightness = result'.changes[l]
                     /\ rec'[l].is_on =
                            ZoneIsOn(target_brightness, StageOf[l])]_vars

\* the light set by hand was excluded and kept its brightness while the
\* other light was brought to its stage brightness
C23_Witness ==
    /\ result.op \in BackPropOps /\ result.light = "l2" /\ coord_is_on
    /\ rec["l2"].brightness = 70
    /\ rec["l1"].brightness = ZoneBrightness255(target_brightness, 1)
    /\ rec["l1"].brightness # 70

\* C24: turn_on(b) sets the target to b clamped to 1..255, or leaves it when
\* b is absent, sets the coordinator ON, gives every light the brightness of
\* its stage at that target with is_on exactly when the stage is above its
\* activation point, and returns a change for every light.
C24_TurnOn ==
    [][result'.op = "turn_on" =>
        /\ target_brightness' =
                IF result'.arg = None THEN target_brightness
                ELSE IF result'.arg < 1 THEN 1
                ELSE IF result'.arg > 255 THEN 255 ELSE result'.arg
        /\ coord_is_on'
        /\ \A l \in Lights :
            /\ rec'[l].brightness =
                    ZoneBrightness255(target_brightness', StageOf[l])
            /\ rec'[l].is_on <=>
                    (target_brightness' * 100 >
                        ActivationPoint(StageOf[l]) * 255)
            /\ rec'[l].is_on <=> rec'[l].brightness > 0
            /\ result'.changes[l] = rec'[l].brightness]_vars

\* turn_on(1) lit the first stage and left the second stage off
C24_Witness ==
    /\ result.op = "turn_on" /\ result.arg = 1 /\ target_brightness = 1
    /\ coord_is_on /\ rec["l1"].is_on /\ ~rec["l2"].is_on

\* C25 (as stated): a turn_on without brightness right after a turn_off of
\* an ON coordinator gives the target and the per-light brightness held just
\* before the turn_off.
C25_ResumeAfterTurnOff ==
    [][(/\ result.op = "turn_off" /\ result.prior_is_on
        /\ result'.op = "turn_on" /\ result'.arg = None)
            => /\ target_brightness' = result.prior_target
               /\ Brightnesses(rec') = result.prior_rec]_vars

\* C25 (amended): turn_off leaves the target unchanged and such a turn_on
\* gives the target held before the turn_off and, for every light, the
\* brightness of its stage at that target: the brightness held before the
\* turn_off exactly when the records then agreed with the stage mapping.
C25_ResumeTargetAfterTurnOff ==
    /\ [][result'.op = "turn_off" =>
            target_brightness' = target_brightness]_vars
    /\ [][(/\ result.op = "turn_off" /\ result.prior_is_on
           /\ result'.op = "turn_on" /\ result'.arg = None)
            => /\ target_brightness' = result.prior_target
               /\ \A l \in Lights : rec'[l].brightness =
                        ZoneBrightness255(result.prior_target, StageOf[l])
               /\ (Brightnesses(rec') = result.prior_rec) <=>
                    (\A l \in Lights : result.prior_rec[l] =
                        ZoneBrightness255(result.prior_target, StageOf[l]))]_vars

\* the coordinator was turned off at target 128 and turned on again without
\* brightness
C25_Witness ==
    /\ result.op = "turn_on" /\ result.arg = None
    /\ target_brightness = 128 /\ coord_is_on

\* C26: turn_off sets the coordinator OFF, every record to off with
\* brightness 0, and returns 0 for every light, from any prior state.
C26_TurnOff ==
    [][result'.op = "turn_off" =>
        /\ ~coord_is_on'
        /\ \A l \in Lights :
            /\ ~rec'[l].is_on
            /\ rec'[l].brightness = 0
            /\ result'.changes[l] = 0]_vars

\* the coordinator was turned off while it was ON with a light lit
C26_Witness ==
    /\ result.op = "turn_off" /\ result.prior_is_on
    /\ \E l \in Lights : result.prior_rec[l] > 0
    /\ ~coord_is_on

\* C27 (as stated): set_light_brightness(L, 0) on an ON coordinator returns
\* the activation point of the stage of L as overall estimate and sets the
\* target to int(activation / 100 * 255).
C27_OffEstimatesActivationPoint ==
    [][(result'.op = "set_light_brightness" /\ result'.arg = 0 /\ coord_is_on)
        => /\ result'.overall =
                    ActivationPoint(StageOf[result'.light]) * ReverseDen
           /\ target_brightness' =
                    (ActivationPoint(StageOf[result'.light]) * 255) \div 100]_vars

\* C27 (amended): when another light is still on after the call, the estimate
\* is the activation point and the target is int(activation / 100 * 255)
\* raised to at least 1; when no light is left on, the estimate is 0 and the
\* target keeps its value.
C27_OffEstimatesActivationPointClamped ==
    [][(result'.op = "set_light_brightness" /\ result'.arg = 0 /\ coord_is_on)
        => LET a == ActivationPoint(StageOf[result'.light])
               others == \E l \in Lights \ {result'.light} : rec[l].is_on
           IN  IF others
               THEN /\ result'.overall = a * ReverseDen
                    /\ target_brightness' = Max(1, (a * 255) \div 100)
                    /\ coord_is_on'
               ELSE /\ result'.overall = 0
                    /\ target_brightness' = target_brightness
                    /\ ~coord_is_on']_vars

\* the stage-2 light was set to 0 while the stage-1 light stayed on
C27_Witness ==
    /\ result.op = "set_light_brightness" /\ result.arg = 0
    /\ result.light = "l2" /\ rec["l1"].is_on
    /\ result.overall = 30 * ReverseDen /\ target_brightness = 76

C29_ForwardThreshold ==
    result.op = "calculate_zone_brightness" =>
        LET x == result.input
            out == result.output
        IN  /\ IF x[1] <= ActivationPoint(result.stage) * x[2]
               THEN out.num = 0
               ELSE out.num >= out.den
            /\ ~(0 < out.num /\ out.num < out.den)

\* a stage-4 call one grid step above its activation point gave at least 1
C29_Witness ==
    /\ result.op = "calculate_zone_brightness" /\ result.stage = 4
    /\ result.input = <<ActivationPoint(4) * PctSteps + 1, PctSteps>>
    /\ result.output.num >= result.output.den

ActiveStages(zone) == {s \in CalcStages : zone[s][1] > 0}

\* C31: estimate_overall_from_zones returns 0 when no stage has a non-zero
\* brightness and otherwise the single-light inverse of the highest-numbered
\* stage with a non-zero brightness, taken at that stage's brightness.
C31_HighestActiveStageWins ==
    result.op = "estimate_overall_from_zones" =>
        LET z == result.zones
            active == ActiveStages(z)
            hs == CHOOSE s \in active : \A u \in active : u <= s
        IN  IF active = {} THEN result.estimate.num = 0
            ELSE result.estimate =
                    estimate_overall_from_single_light_pct(hs, z[hs][1], z[hs][2])

\* stages 1 and 3 lit: the estimate is the inverse of stage 3 at 50 percent
C31_Witness ==
    /\ result.op = "estimate_overall_from_zones"
    /\ result.zones = <<<<100, 1>>, ZoneOff, <<50, 1>>, <<0, 1>>>>
    /\ result.estimate.num > ActivationPoint(3) * result.estimate.den

\* C32: when a stage is off while a higher-numbered stage is on, the
\* estimate does not exceed the activation point of the off stage, and is 0
\* when the off stage is stage 1.
C32_InconsistentZonesCapped ==
    result.op = "estimate_overall_from_zones" =>
        \A k \in CalcStages :
            (/\ k \notin ActiveStages(result.zones)
             /\ \E h \in ActiveStages(result.zones) : h > k)
                => IF k = 1 THEN result.estimate.num = 0
                   ELSE result.estimate.num <=
                            ActivationPoint(k) * result.estimate.den

\* C33: a sync that reads a light as on with brightness 0 keeps the positive
\* brightness of its record, and gives a record without brightness the
\* minimum 1.
C33_TransitionalSyncKeepsBrightness ==
    [][result'.op = "sync" =>
        \A l \in Lights :
            (ha'[l].state = "on" /\ ha'[l].brightness = 0) =>
                rec'[l].brightness =
                    IF rec[l].brightness > 0 THEN rec[l].brightness ELSE 1]_vars

\* C34: an event that carries the identity of one of the system's own
\* commands (an echo) never queues a manual change and never arms the
\* debounce timer, so it triggers no flush and no further back-propagation.
\* An echo is an event on a light for which a command is outstanding (an
\* expectation is recorded), carrying an own command identity and reporting
\* the on/off state that the command asked for.
C34_NoFeedbackLoop ==
    [][\A l \in Lights :
        (/\ EventOn(l) /\ verdict'.ours
         /\ expected_states[l] # None
         /\ (ha'[l].state = "on" <=> expected_states[l] > 0))
            => /\ pending_manual_changes' = pending_manual_changes
               /\ timers' = timers]_vars

NoDuplicates(seq) == \A i, j \in 1..Len(seq) : seq[i] = seq[j] => i = j
\* the last min(n, Len(seq)) entries of a sequence
LastN(seq, n) == SubSeq(seq, Max(1, Len(seq) - n + 1), Len(seq))
\* the up to n identities of a history that were issued most recently
MostRecentlyIssued(issued, n) ==
    LET last(c) == CHOOSE i \in 1..Len(issued) :
                        issued[i] = c /\ \A j \in (i + 1)..Len(issued) : issued[j] # c
    IN  {c \in Range(issued) :
            Cardinality({d \in Range(issued) : last(d) > last(c)}) < n}

\* C35 (as stated): the buffer never holds more than 5 entries, holds no
\* duplicates, and contains the identities of the up to 5 most recently
\* issued distinct commands.
C35_RecentContexts ==
    /\ Len(recent_contexts) <= max_recent_contexts
    /\ NoDuplicates(recent_contexts)
    /\ MostRecentlyIssued(result.issued, max_recent_contexts)
            \subseteq Range(recent_contexts)

\* C35 (amended): the buffer never holds more than 5 entries, holds no
\* duplicates and always contains the identity issued last; when every
\* command was issued under its own identity, the buffer is the last (up to) 5
\* identities in issue order.
C35_RecentContextsFirstIssue ==
    /\ Len(recent_contexts) <= max_recent_contexts
    /\ NoDuplicates(recent_contexts)
    /\ result.issued[Len(result.issued)] \in Range(recent_contexts)
    /\ NoDuplicates(result.issued) =>
            recent_contexts = LastN(result.issued, max_recent_contexts)

\* seven commands with identities of their own: the two oldest were dropped
C35_Witness ==
    /\ result.op = "add_integration_context"
    /\ result.issued = <<0, 1, 2, 3, 4, 5, 6>>
    /\ recent_contexts = <<2, 3, 4, 5, 6>>

\* C36: after a manual change handled as set_light_brightness(L, b) followed,
\* when back-propagation is enabled and the coordinator is ON, by
\* apply_back_propagation(exclude = L), the coordinator is ON if and only if
\* at least one light record is on.
C36_IsOnIffAnyRecordOn ==
    [][result'.op = "async_set_light_brightness" =>
            (coord_is_on' <=> AnyOn(rec'))]_vars

\* C37: whenever the instance lock is free the updating flag of the
\* classifier is False.
C37_UpdatingOnlyUnderLock == lock_holder = NoTask => ~updating_lights

\* an operation whose service call failed has returned and released the lock
C37_Witness ==
    /\ returned.kind # "none" /\ returned.failed # {}
    /\ lock_holder = NoTask /\ ~updating_lights

\* C38: progressive activation.  After any turn_on, for every stage k in
\* 2..4, a light of stage k being on means every light of each lower stage
\* is on, and every light of stage 1 is on for every target in 1..255.
C38_ProgressiveActivation ==
    result.op = "turn_on_stages" =>
        /\ result.target \in 1..255
        /\ \A l \in StageLights : l[1] = 1 => result.lights[l]
        /\ \A l \in StageLights : \A m \in StageLights :
                (l[1] \in 2..4 /\ result.lights[l] /\ m[1] < l[1])
                    => result.lights[m]

\* turn_on left stage 3 on and stage 4 off
C38_Witness ==
    /\ result.op = "turn_on_stages"
    /\ result.breakpoints = Breakpoints
    /\ result.lights[<<3, 1>>]
    /\ ~result.lights[<<4, 2>>]

\* C39: for a light L of stage k in 2..4, after set_light_brightness(L, 0)
\* in a fully-on state and apply_back_propagation(exclude = L), every light
\* of stage k or higher is off with brightness 0 and every light of a lower
\* stage is on, for every valid breakpoint triple.
C39_StageOffKeepsLowerStages ==
    (result.op = "light_off_stages" /\ result.stage \in 2..4) =>
        /\ \A l \in StageLights : l[1] >= result.stage => ~result.lights[l]
        /\ \A l \in StageLights : l[1] < result.stage => result.lights[l]

\* stage 2 switched off at breakpoint 30: the target 76.5 is truncated to 76
C39_Witness ==
    /\ result.op = "light_off_stages"
    /\ result.stage = 2
    /\ result.breakpoints = Breakpoints
    /\ result.target = 76
    /\ result.lights[<<1, 1>>]
    /\ ~result.lights[<<2, 2>>]

\* C40: immediately after every flush of a non-empty batch, coordinator.is_on
\* equals whether at least one controlled light is on in the host's states
\* at flush time, whatever values were queued.
C40_FlushFollowsHost ==
    [][flushed' \in {"all_off", "settled"} =>
            (coord_is_on' <=> \E l \in Lights : ha[l].state = "on")]_vars

=============================================================================
